---- MODULE Spec2Model ----
(***************************************************************************)
(* Model of the flash-cards quiz runner (src/main.rs): construction of the *)
(* Quiz from the decoded JSON records, the two shuffles, the resolver of   *)
(* the correct answer's index, the input loop, scoring and reporting.      *)
(***************************************************************************)
EXTENDS Bags, FiniteSets, Integers, Sequences, TLC

\* ------------------------------------------------------------------ bounds
MaxQuestions == 2
MaxOptions == 3
MaxCount == 9

\* ------------------------------------------------------------- input sets
Texts == {"a", "b"}
Prompts == {"p", "q"}
\* Option / Result values: None (or Err) is the empty sequence, Some(v) is <<v>>
None == <<>>
Some(v) == <<v>>
Unwrap(o) == o[1]

SeqsUpTo(S, n) == UNION {[1..k -> S] : k \in 0..n}

\* struct JsonQuestion { question, answer, options }
JsonQuestion ==
    [question : Prompts, answer : 0..(MaxOptions + 1), options : SeqsUpTo(Texts, MaxOptions)]

\* records for the quizzes of several questions: a valid one, a valid one whose
\* options repeat the correct text, and the three malformed shapes
SampleQuestions ==
    {[question |-> "p", answer |-> 2, options |-> <<"a", "b">>],
     [question |-> "q", answer |-> 1, options |-> <<"a", "a">>],
     [question |-> "q", answer |-> 0, options |-> <<"a", "b">>],
     [question |-> "p", answer |-> 3, options |-> <<"b", "a">>],
     [question |-> "p", answer |-> 1, options |-> <<>>]}

\* struct JsonQuiz { questions }: every quiz of at most one record, and every quiz
\* of up to MaxQuestions of the sample records
JsonQuiz == SeqsUpTo(JsonQuestion, 1) \cup SeqsUpTo(SampleQuestions, MaxQuestions)

\* what File::open and serde_json::from_reader can find behind the file name
Files ==
    {[status |-> "missing", json |-> <<>>], [status |-> "garbage", json |-> <<>>]}
        \cup {[status |-> "ok", json |-> j] : j \in JsonQuiz}

\* env::args(): the program name, then the positional arguments
ArgLists == {<<"script">>, <<"script", "f.json">>, <<"script", "f.json", "extra">>}

\* --------------------------------------------------------------- Answer
CorrectAnswer(s) == [kind |-> "CorrectAnswer", text |-> s]
IncorrectAnswer(s) == [kind |-> "IncorrectAnswer", text |-> s]

as_str(a) == a.text

\* the tagging with the declared identifier read as a 0-based position
TagOptionZeroBased(index, option, answer) ==
    IF index = answer THEN CorrectAnswer(option) ELSE IncorrectAnswer(option)

\* the closure of Quiz::try_from that tags one option
TagOption(index, option, answer) ==
    IF index + 1 = answer THEN CorrectAnswer(option) ELSE IncorrectAnswer(option)

\* the closure of Quiz::try_from that builds one Question (index is 0-based)
MakeQuestion(json_question) ==
    [question |-> json_question.question,
     answers |-> [j \in 1..Len(json_question.options) |->
                    TagOption(j - 1, json_question.options[j], json_question.answer)]]

\* a construction that takes an undecodable file for an empty quiz
try_from_or_default(f) ==
    IF f.status = "missing" THEN [ok |-> FALSE, err |-> "FileNotFound", questions |-> <<>>]
    ELSE IF f.status = "garbage" THEN [ok |-> TRUE, err |-> "", questions |-> <<>>]
    ELSE [ok |-> TRUE, err |-> "",
          questions |-> [i \in 1..Len(f.json) |-> MakeQuestion(f.json[i])]]

\* Quiz::try_from on a file: Ok(Quiz) or Err(QuizParseError)
try_from(f) ==
    IF f.status = "missing" THEN [ok |-> FALSE, err |-> "FileNotFound", questions |-> <<>>]
    ELSE IF f.status = "garbage" THEN [ok |-> FALSE, err |-> "ParseError", questions |-> <<>>]
    ELSE [ok |-> TRUE, err |-> "",
          questions |-> [i \in 1..Len(f.json) |-> MakeQuestion(f.json[i])]]

\* impl Display for QuizParseError
QuizParseErrorDisplay(err) ==
    IF err = "FileNotFound" THEN "Error reading json file: " ELSE "Parse Error: "

\* ------------------------------------------------------------- shuffle
Perms(n) == {p \in [1..n -> 1..n] : \A i, j \in 1..n : p[i] = p[j] => i = j}

\* a shuffle that draws every position independently (with replacement)
ShuffleOrdersWithReplacement(n) == [1..n -> 1..n]

\* the orders slice::shuffle can leave a slice of length n in
ShuffleOrders(n) == Perms(n)

Permute(s, p) == [i \in 1..Len(s) |-> s[p[i]]]

\* ------------------------------------------------------------ formatting
Digit(d) ==
    CASE d = 0 -> "0" [] d = 1 -> "1" [] d = 2 -> "2" [] d = 3 -> "3" [] d = 4 -> "4"
      [] d = 5 -> "5" [] d = 6 -> "6" [] d = 7 -> "7" [] d = 8 -> "8" [] d = 9 -> "9"

RECURSIVE Str(_)
\* format!("{}", n) of a usize
Str(n) == IF n < 10 THEN Digit(n) ELSE Str(n \div 10) \o Digit(n % 10)

RECURSIVE Chars(_)
\* the same decimal text as a sequence of characters (an input line's content)
Chars(n) == IF n < 10 THEN <<Digit(n)>> ELSE Append(Chars(n \div 10), Digit(n % 10))

RECURSIVE JoinEntriesFromZero(_, _)
\* the entries numbered by the 0-based index
JoinEntriesFromZero(answers, i) ==
    IF i > Len(answers) THEN ""
    ELSE Str(i - 1) \o " - " \o as_str(answers[i]) \o "\n\n"
            \o JoinEntriesFromZero(answers, i + 1)

RECURSIVE JoinEntries(_, _)
\* the enumerate/map/join of display_question, from 1-based position i on
JoinEntries(answers, i) ==
    IF i > Len(answers) THEN ""
    ELSE Str((i - 1) + 1) \o " - " \o as_str(answers[i]) \o "\n\n"
            \o JoinEntries(answers, i + 1)

display_question(question, answers) ==
    "---\n\n" \o question \o "\n\n" \o JoinEntries(answers, 1)

\* display_results: total, percent by integer division, the formatted line
Total(r) == r.correct + r.incorrect
\* the percent rounded to the nearest integer
PercentRounded(r) ==
    IF Total(r) = 0 THEN 0 ELSE (100 * r.correct + Total(r) \div 2) \div Total(r)
Percent(r) == IF Total(r) = 0 THEN 0 ELSE (100 * r.correct) \div Total(r)
display_results(r) ==
    Str(Percent(r)) \o "% correct (" \o Str(r.correct) \o " of " \o Str(Total(r)) \o ")"

\* ------------------------------------------------------- resolver, input
IsCorrect(a) == a.kind = "CorrectAnswer"

\* a resolver that looks the correct answer up by its text
get_correct_answer_index_by_text(answers) ==
    IF \E i \in 1..Len(answers) : IsCorrect(answers[i])
    THEN LET t == as_str(answers[CHOOSE i \in 1..Len(answers) : IsCorrect(answers[i])])
         IN Some((CHOOSE i \in 1..Len(answers) :
                    as_str(answers[i]) = t
                        /\ \A j \in 1..(i - 1) : as_str(answers[j]) # t) - 1)
    ELSE None

\* a resolver that reports the 1-based position
get_correct_answer_index_one_based(answers) ==
    IF \E i \in 1..Len(answers) : IsCorrect(answers[i])
    THEN Some(CHOOSE i \in 1..Len(answers) :
                IsCorrect(answers[i]) /\ \A j \in 1..(i - 1) : ~IsCorrect(answers[j]))
    ELSE None

\* a resolver that falls back to index 0 (unwrap_or(0)) instead of the panic
get_correct_answer_index_or_zero(answers) ==
    IF \E i \in 1..Len(answers) : IsCorrect(answers[i])
    THEN Some((CHOOSE i \in 1..Len(answers) :
                IsCorrect(answers[i]) /\ \A j \in 1..(i - 1) : ~IsCorrect(answers[j])) - 1)
    ELSE Some(0)

\* iter().position(..).unwrap_or_else(panic): Some(0-based index), None for the panic
get_correct_answer_index(answers) ==
    IF \E i \in 1..Len(answers) : IsCorrect(answers[i])
    THEN Some((CHOOSE i \in 1..Len(answers) :
                IsCorrect(answers[i]) /\ \A j \in 1..(i - 1) : ~IsCorrect(answers[j])) - 1)
    ELSE None

IsSpace(c) == c \in {" ", "\n"}
IsDigit(c) == c \in {"0", "1", "2", "3", "4", "5", "6", "7", "8", "9"}
DigitVal(c) == CHOOSE d \in 0..9 : Digit(d) = c

RECURSIVE TrimStart(_)
TrimStart(s) == IF s # <<>> /\ IsSpace(Head(s)) THEN TrimStart(Tail(s)) ELSE s
RECURSIVE TrimEnd(_)
TrimEnd(s) ==
    IF s # <<>> /\ IsSpace(s[Len(s)]) THEN TrimEnd(SubSeq(s, 1, Len(s) - 1)) ELSE s
\* str::trim
Trim(s) == TrimEnd(TrimStart(s))

RECURSIVE DigitsValue(_)
DigitsValue(s) ==
    IF s = <<>> THEN 0 ELSE 10 * DigitsValue(SubSeq(s, 1, Len(s) - 1)) + DigitVal(s[Len(s)])

\* str::parse::<usize>: an optional "+", then one or more digits; None for Err
ParseUsize(s) ==
    LET d == IF s # <<>> /\ Head(s) = "+" THEN Tail(s) ELSE s
    IN IF d # <<>> /\ \A i \in 1..Len(d) : IsDigit(d[i]) THEN Some(DigitsValue(d)) ELSE None

\* the match with the guard index >= 0 && index <= answers.len()
AcceptLineFromZero(line, answers) ==
    LET index == ParseUsize(Trim(line))
    IN IF index # None /\ Unwrap(index) >= 0 /\ Unwrap(index) <= Len(answers)
       THEN Some(Unwrap(index) - 1)
       ELSE None

\* the match of get_user_answer_index on one line: Some(index - 1), or None
AcceptLine(line, answers) ==
    LET index == ParseUsize(Trim(line))
    IN IF index # None /\ Unwrap(index) > 0 /\ Unwrap(index) <= Len(answers)
       THEN Some(Unwrap(index) - 1)
       ELSE None

\* lines stdin can deliver: every number up to one past the longest answer list,
\* end of input, and lines that are no plain number
Lines ==
    {Append(Chars(v), "\n") : v \in 0..(MaxOptions + 1)}
        \cup {<<>>, <<"\n">>, <<"x", "\n">>, <<"1", "x", "\n">>, <<"-", "1", "\n">>,
              <<"+", "1", "\n">>, <<" ", "2", " ", "\n">>, <<"0", "2", "\n">>}

\* args.get(0): the program name taken for the file name
get_file_name_from_args_first(a) == IF Len(a) >= 1 THEN Some(a[1]) ELSE None

\* args.last(): the last argument taken for the file name
get_file_name_from_args_last(a) == IF Len(a) >= 2 THEN Some(a[Len(a)]) ELSE None

\* get_file_name_from_args: args.get(1), or None for the Err
get_file_name_from_args(a) == IF Len(a) >= 2 THEN Some(a[2]) ELSE None

\* ------------------------------------------------------------------ state
VARIABLES
    args,                  \* env::args()
    file,                  \* what the file system holds under the file name
    questions_file,        \* Some(name) once get_file_name_from_args returned Ok
    pc,                    \* position of main
    quiz,                  \* Some(questions as constructed) once try_from returned Ok
    questions,             \* main's questions, after the shuffle
    qperm,                 \* the order the question shuffle chose
    qi,                    \* questions taken from the for loop's iterator
    answers,               \* the loop body's shuffled copy of the answers
    perm,                  \* the order the answer shuffle chose
    correct_answer_index,  \* Some(index) once the resolver returned
    user_answer,           \* the line read last by get_user_answer_index
    user_index,            \* Some(index) once get_user_answer_index returned
    results,               \* Results
    out,                   \* the lines the last step printed
    exit_code              \* Some(status) once the process ended

vars ==
    <<args, file, questions_file, pc, quiz, questions, qperm, qi, answers, perm,
      correct_answer_index, user_answer, user_index, results, out, exit_code>>

\* Results::default()
ResultsDefault == [correct |-> 0, incorrect |-> 0]

Init ==
    /\ args \in ArgLists
    /\ file \in Files
    /\ questions_file = None
    /\ pc = "args"
    /\ quiz = None
    /\ questions = <<>>
    /\ qperm = <<>>
    /\ qi = 0
    /\ answers = <<>>
    /\ perm = <<>>
    /\ correct_answer_index = None
    /\ user_answer = <<>>
    /\ user_index = None
    /\ results = ResultsDefault
    /\ out = <<>>
    /\ exit_code = None

\* main: get_file_name_from_args(env::args().collect()).unwrap_or_else(exit 1)
GetFileName ==
    /\ pc = "args"
    /\ questions_file' = get_file_name_from_args(args)
    /\ IF get_file_name_from_args(args) = None
       THEN /\ out' = <<"Error: Please input one parameter for json filename">>
            /\ exit_code' = Some(1)
            /\ pc' = "exit"
       ELSE /\ out' = <<>>
            /\ pc' = "load"
            /\ UNCHANGED exit_code
    /\ UNCHANGED <<args, file, quiz, questions, qperm, qi, answers, perm,
                   correct_answer_index, user_answer, user_index, results>>

\* main: Quiz::try_from(..).unwrap_or_else(exit 1), then Results::default()
LoadQuiz ==
    /\ pc = "load"
    /\ LET r == try_from(file)
       IN IF r.ok
          THEN /\ quiz' = Some(r.questions)
               /\ results' = ResultsDefault
               /\ out' = <<>>
               /\ pc' = "shuffle"
               /\ UNCHANGED exit_code
          ELSE /\ out' = <<QuizParseErrorDisplay(r.err)>>
               /\ exit_code' = Some(1)
               /\ pc' = "exit"
               /\ UNCHANGED <<quiz, results>>
    /\ UNCHANGED <<args, file, questions_file, questions, qperm, qi, answers, perm,
                   correct_answer_index, user_answer, user_index>>

\* main: questions = quiz.questions; questions.shuffle(..)
ShuffleQuestions ==
    /\ pc = "shuffle"
    /\ \E p \in ShuffleOrders(Len(Unwrap(quiz))) :
          /\ qperm' = p
          /\ questions' = Permute(Unwrap(quiz), p)
    /\ pc' = "loop"
    /\ out' = <<>>
    /\ UNCHANGED <<args, file, questions_file, quiz, qi, answers, perm, correct_answer_index,
                   user_answer, user_index, results, exit_code>>

\* an iterator that stops one element early
IterNextButLast(qs, taken) == IF taken + 1 < Len(qs) THEN Some(qs[taken + 1]) ELSE None

\* for question in questions: the iterator's next() after `taken` elements
IterNext(qs, taken) == IF taken < Len(qs) THEN Some(qs[taken + 1]) ELSE None

\* loop body, first half: clone and shuffle the answers, print the question
NextQuestion ==
    /\ pc = "loop"
    /\ IterNext(questions, qi) # None
    /\ LET question == Unwrap(IterNext(questions, qi))
       IN \E p \in ShuffleOrders(Len(question.answers)) :
            /\ perm' = p
            /\ answers' = Permute(question.answers, p)
            /\ out' = <<display_question(question.question, Permute(question.answers, p))>>
    /\ qi' = qi + 1
    /\ pc' = "resolve"
    /\ UNCHANGED <<args, file, questions_file, quiz, questions, qperm, correct_answer_index,
                   user_answer, user_index, results, exit_code>>

\* let correct_answer_index = get_correct_answer_index(&answers), or the panic
Resolve ==
    /\ pc = "resolve"
    /\ LET r == get_correct_answer_index(answers)
       IN IF r = None
          THEN /\ pc' = "panic"
               /\ out' = <<"Correct answer not found">>
               /\ exit_code' = Some(101)
               /\ UNCHANGED correct_answer_index
          ELSE /\ pc' = "input"
               /\ correct_answer_index' = r
               /\ out' = <<>>
               /\ UNCHANGED exit_code
    /\ UNCHANGED <<args, file, questions_file, quiz, questions, qperm, qi, answers, perm,
                   user_answer, user_index, results>>

\* a rejection that prints nothing
InvalidFeedbackSilent == <<"Answer: ">>

\* what one rejected turn prints: the prompt, then the rejection
InvalidFeedback == <<"Answer: ", "Invalid answer">>

\* one turn of the loop of get_user_answer_index: prompt, read a line, match it
ReadLine ==
    /\ pc = "input"
    /\ \E line \in Lines :
          /\ user_answer' = line
          /\ IF AcceptLine(line, answers) = None
             THEN /\ out' = InvalidFeedback
                  /\ UNCHANGED <<pc, user_index>>
             ELSE /\ out' = <<"Answer: ">>
                  /\ user_index' = AcceptLine(line, answers)
                  /\ pc' = "score"
    /\ UNCHANGED <<args, file, questions_file, quiz, questions, qperm, qi, answers, perm,
                   correct_answer_index, results, exit_code>>

\* the if with its branches exchanged
ScoredSwapped(r, user, correct) ==
    IF user = correct
    THEN [r EXCEPT !.incorrect = @ + 1]
    ELSE [r EXCEPT !.correct = @ + 1]

\* the if without its else: a wrong selection counts on both sides
ScoredWithoutElse(r, user, correct) ==
    IF user = correct
    THEN [r EXCEPT !.correct = @ + 1]
    ELSE [r EXCEPT !.correct = @ + 1, !.incorrect = @ + 1]

\* what the if of the loop body does to the Results
Scored(r, user, correct) ==
    IF user = correct
    THEN [r EXCEPT !.correct = @ + 1]
    ELSE [r EXCEPT !.incorrect = @ + 1]

\* loop body, second half: compare, count, print the outcome and the results
Score ==
    /\ pc = "score"
    /\ results' = Scored(results, Unwrap(user_index), Unwrap(correct_answer_index))
    /\ out' = <<IF Unwrap(user_index) = Unwrap(correct_answer_index)
                THEN "Correct!"
                ELSE "Incorrect! Correct answer was #"
                        \o Str(Unwrap(correct_answer_index) + 1),
                "\n" \o display_results(results') \o "\n\n">>
    /\ pc' = "loop"
    /\ answers' = <<>>
    /\ perm' = <<>>
    /\ correct_answer_index' = None
    /\ user_answer' = <<>>
    /\ user_index' = None
    /\ UNCHANGED <<args, file, questions_file, quiz, questions, qperm, qi, exit_code>>

\* the loop is exhausted: println!("Done!") and the return of main
Finish ==
    /\ pc = "loop"
    /\ IterNext(questions, qi) = None
    /\ out' = <<"Done!">>
    /\ exit_code' = Some(0)
    /\ pc' = "done"
    /\ UNCHANGED <<args, file, questions_file, quiz, questions, qperm, qi, answers, perm,
                   correct_answer_index, user_answer, user_index, results>>

Next ==
    \/ GetFileName
    \/ LoadQuiz
    \/ ShuffleQuestions
    \/ NextQuestion
    \/ Resolve
    \/ ReadLine
    \/ Score
    \/ Finish

Spec == Init /\ [][Next]_vars

\* ---------------------------------------------- the results line on its own
\* display_results applied to any pair of counters up to MaxCount
InitResults ==
    /\ args = <<"script", "f.json">>
    /\ file = [status |-> "ok", json |-> <<>>]
    /\ questions_file = Some("f.json")
    /\ pc = "results"
    /\ quiz = None
    /\ questions = <<>>
    /\ qperm = <<>>
    /\ qi = 0
    /\ answers = <<>>
    /\ perm = <<>>
    /\ correct_answer_index = None
    /\ user_answer = <<>>
    /\ user_index = None
    /\ results \in [correct : 0..MaxCount, incorrect : 0..MaxCount]
    /\ out = <<>>
    /\ exit_code = None

DisplayResults ==
    /\ pc = "results"
    /\ out' = <<display_results(results)>>
    /\ pc' = "displayed"
    /\ UNCHANGED <<args, file, questions_file, quiz, questions, qperm, qi, answers, perm,
                   correct_answer_index, user_answer, user_index, results, exit_code>>

NextResults == DisplayResults

SpecResults == InitResults /\ [][NextResults]_vars

\* ------------------------------------------------------- claim vocabulary
\* a record the construction contract calls malformed
Malformed(rec) ==
    rec.options = <<>> \/ rec.answer = 0 \/ rec.answer > Len(rec.options)

\* main is inside the loop body, between taking a question and scoring it
InQuestion == pc \in {"resolve", "input", "score", "panic"}

\* the decoded record of the question the loop body is working on
CurrentRecord == file.json[qperm[qi]]

\* the question the loop body is working on
CurrentQuestion == questions[qi]

SeqToBag(s) ==
    [x \in {s[i] : i \in DOMAIN s} |-> Cardinality({i \in DOMAIN s : s[i] = x})]

CorrectPositions(as) == {i \in DOMAIN as : IsCorrect(as[i])}

\* questions the session has scored so far
ScoredSoFar == IF InQuestion THEN qi - 1 ELSE qi

\* ------------------------------------------------------------------ claims
\* C1: for every decoded record whose correct-option identifier k is within
\* 1..len(options), the constructed Question has as many answers as options, in
\* the same order and with the same texts, the answer at 1-based position k is
\* tagged correct and every other answer is tagged incorrect.
C1_ConstructionTagsDeclaredOption ==
    quiz # None =>
        \A i \in 1..Len(file.json) :
            LET rec == file.json[i]
                q == Unwrap(quiz)[i]
            IN (rec.answer >= 1 /\ rec.answer <= Len(rec.options)) =>
                /\ Len(q.answers) = Len(rec.options)
                /\ \A j \in 1..Len(rec.options) :
                      /\ as_str(q.answers[j]) = rec.options[j]
                      /\ q.answers[j].kind =
                            (IF j = rec.answer THEN "CorrectAnswer" ELSE "IncorrectAnswer")

C1_Witness ==
    /\ quiz # None
    /\ \E i \in 1..Len(file.json) :
          /\ Len(file.json[i].options) >= 3
          /\ file.json[i].answer = 2
          /\ IsCorrect(Unwrap(quiz)[i].answers[2])

\* C2: a record with correct-option identifier 0, or greater than the number of
\* options, or with no options, makes construction return an error: no Quiz and
\* no Question is produced.
C2_MalformedRecordRejected ==
    (file.status = "ok" /\ \E i \in 1..Len(file.json) : Malformed(file.json[i]))
        => (quiz = None /\ pc \in {"args", "load", "exit"})

\* C3: with a malformed record in the loaded source no question is ever presented,
\* no input is requested and no Results counter moves: the run ends before the
\* session loop.
C3_NoPartialSession ==
    (file.status = "ok" /\ \E i \in 1..Len(file.json) : Malformed(file.json[i]))
        => (~InQuestion /\ qi = 0 /\ results = ResultsDefault /\ pc # "done")

\* C4: after the answer shuffle the resolver's index is the position the shuffle
\* moved the answer tagged at construction to: its origin is the declared option,
\* it carries that option's text, also when other options repeat that text.
C4_CorrectnessTagStability ==
    (InQuestion /\ ~Malformed(CurrentRecord)) =>
        /\ pc # "panic"
        /\ correct_answer_index # None =>
              LET i == Unwrap(correct_answer_index) + 1
              IN /\ i \in 1..Len(answers)
                 /\ perm[i] = CurrentRecord.answer
                 /\ IsCorrect(answers[i])
                 /\ as_str(answers[i]) = CurrentRecord.options[CurrentRecord.answer]

C4_Witness ==
    /\ pc = "input"
    /\ ~Malformed(CurrentRecord)
    /\ perm[1] # CurrentRecord.answer
    /\ as_str(answers[1]) = CurrentRecord.options[CurrentRecord.answer]
    /\ correct_answer_index # Some(0)

\* C5: the question shuffle and the answer shuffle only reorder: the multiset of
\* questions, and for the current question the multiset of (text, tag) answers,
\* are those from before the shuffle.
C5_PermutationInvariant ==
    /\ (quiz # None /\ pc # "shuffle") =>
          SeqToBag(questions) = SeqToBag(Unwrap(quiz))
    /\ InQuestion =>
          SeqToBag(answers) = SeqToBag(CurrentQuestion.answers)

C5_Witness ==
    /\ InQuestion
    /\ questions # Unwrap(quiz)
    /\ answers # CurrentQuestion.answers
    /\ qi = 2

\* C6: every question the loop processes moves exactly one of Results.correct and
\* Results.incorrect, by exactly 1, and correct + incorrect is at every point the
\* number of questions scored so far: 0 at session start, all of them at Done.
C6_CountInv ==
    /\ results.correct + results.incorrect = ScoredSoFar
    /\ pc = "done" => results.correct + results.incorrect = Len(file.json)

C6_ScoreStep ==
    (pc = "score" /\ pc' = "loop") =>
        \/ results' = [results EXCEPT !.correct = @ + 1]
        \/ results' = [results EXCEPT !.incorrect = @ + 1]

C6_OtherStep ==
    ~(pc = "score" /\ pc' = "loop") => results' = results

C6_ScoringCount == []C6_CountInv /\ [][C6_ScoreStep /\ C6_OtherStep]_vars

C6_Witness ==
    /\ pc = "done"
    /\ results.correct = 1
    /\ results.incorrect = 1

\* what the line read last means as a selection among n answers: Some(v - 1) when
\* it parses as an integer v within 1..n, None otherwise
SelectionOf(line, n) ==
    LET v == ParseUsize(Trim(line))
    IN IF v # None /\ Unwrap(v) \in 1..n THEN Some(Unwrap(v) - 1) ELSE None

\* C7: get_user_answer_index returns only on a line that parses as an integer v
\* with 1 <= v <= n, and returns v - 1; any other line is answered with "Invalid
\* answer" and a further prompt; the returned index is within 0..n-1.
C7_InputAcceptance ==
    /\ pc = "score" =>
          /\ user_index # None
          /\ user_index = SelectionOf(user_answer, Len(answers))
          /\ Unwrap(user_index) \in 0..(Len(answers) - 1)
    /\ (pc = "input" /\ out # <<>>) =>
          /\ SelectionOf(user_answer, Len(answers)) = None
          /\ user_index = None
          /\ out = <<"Answer: ", "Invalid answer">>
    /\ pc # "score" => user_index = None

C7_Witness ==
    /\ pc = "score"
    /\ Len(answers) = 3
    /\ user_answer = <<" ", "2", " ", "\n">>
    /\ user_index = Some(1)

\* C8: display_results reports percent 0 for an empty total and otherwise
\* floor(100 * correct / total), in the form "{percent}% correct ({correct} of
\* {total})": (3,2) gives 60, (1,2) gives 33.
C8_PercentComputation ==
    pc = "displayed" =>
        LET c == results.correct
            t == results.correct + results.incorrect
        IN /\ Len(out) = 1
           /\ \E p \in 0..100 :
                 /\ out[1] = Str(p) \o "% correct (" \o Str(c) \o " of " \o Str(t) \o ")"
                 /\ IF t = 0 THEN p = 0
                    ELSE p * t <= 100 * c /\ 100 * c < (p + 1) * t
           /\ (c = 3 /\ t = 5) => out[1] = "60% correct (3 of 5)"
           /\ (c = 1 /\ t = 3) => out[1] = "33% correct (1 of 3)"
           /\ (c = 0 /\ t = 0) => out[1] = "0% correct (0 of 0)"

C8_Witness ==
    /\ pc = "displayed"
    /\ results = [correct |-> 2, incorrect |-> 1]
    /\ out = <<"66% correct (2 of 3)">>

\* C9: on answers holding exactly one Answer tagged correct the resolver returns
\* that Answer's zero-based position, be it first, middle or last.
C9_ResolverResult ==
    (pc \in {"input", "score", "panic"} /\ Cardinality(CorrectPositions(answers)) = 1) =>
        /\ pc # "panic"
        /\ correct_answer_index # None
        /\ Unwrap(correct_answer_index) + 1 \in CorrectPositions(answers)

C9_Witness ==
    /\ pc = "input"
    /\ Len(answers) = 3
    /\ CorrectPositions(answers) = {2}
    /\ correct_answer_index = Some(1)

\* C10: on answers with no Answer tagged correct (the empty sequence too) the
\* resolver ends in the fatal failure: no index is returned, none is defaulted,
\* and the Results stay as they were from then on.
C10_PanicInv ==
    /\ (pc \in {"input", "score", "panic"} /\ CorrectPositions(answers) = {}) =>
          /\ pc = "panic"
          /\ correct_answer_index = None
          /\ user_index = None
          /\ exit_code = Some(101)
    /\ pc \in {"input", "score"} => CorrectPositions(answers) # {}

C10_PanicStep == pc = "panic" => (pc' = "panic" /\ results' = results)

C10_ResolverFailure == []C10_PanicInv /\ [][C10_PanicStep]_vars

C10_Witness ==
    /\ pc = "panic"
    /\ Len(answers) >= 2
    /\ results.incorrect = 1

\* ------------------------------------------------- the session with fairness
\* a turn of the input loop on which the user supplies a valid line
ReadValidLine == ReadLine /\ pc' = "score"

\* main runs on whenever it can, and a valid line is eventually supplied at every
\* input request
Fairness ==
    /\ WF_vars(GetFileName)
    /\ WF_vars(LoadQuiz)
    /\ WF_vars(ShuffleQuestions)
    /\ WF_vars(NextQuestion)
    /\ WF_vars(Resolve)
    /\ SF_vars(ReadValidLine)
    /\ WF_vars(Score)
    /\ WF_vars(Finish)

SpecFair == Init /\ [][Next]_vars /\ Fairness

\* C11: every successfully constructed quiz, given a valid line at every input
\* request eventually, brings the session to Done; a rejected line leaves the
\* session at the same input request.
C11_SessionTerminates ==
    /\ (quiz # None) ~> (pc = "done")
    /\ [][(pc = "input" /\ AcceptLine(user_answer', answers) = None)
            => (pc' = "input" /\ qi' = qi)]_vars

\* the results line as main prints it
ResultsLine(r) == "\n" \o display_results(r) \o "\n\n"

\* C12: every completed session, of a quiz of any number of questions (zero too),
\* prints the results line right before "Done!": when the loop is exhausted the
\* last thing printed is the line of the final Results.
C12_FinalReport ==
    (pc = "loop" /\ IterNext(questions, qi) = None) =>
        (out # <<>> /\ out[Len(out)] = ResultsLine(results))

\* C13: a file that cannot be opened gives FileNotFound, one that cannot be
\* decoded gives ParseError; the error is printed once, the process exits with
\* status 1, and no question is presented, no input read, no counter moved.
C13_LoadFailureFatal ==
    file.status \in {"missing", "garbage"} =>
        /\ pc \in {"args", "load", "exit"}
        /\ quiz = None
        /\ qi = 0
        /\ user_answer = <<>>
        /\ results = ResultsDefault
        /\ (pc = "exit" /\ questions_file # None) =>
              /\ exit_code = Some(1)
              /\ out = <<IF file.status = "missing"
                         THEN "Error reading json file: "
                         ELSE "Parse Error: ">>

C13_Witness ==
    /\ pc = "exit"
    /\ file.status = "garbage"
    /\ out = <<"Parse Error: ">>

\* C14 as claimed: an argument list with no positional argument, and one with
\* more than one, are input errors, and loading and the session never start.
C14_ExactlyOneArgument ==
    Len(args) # 2 =>
        /\ pc \in {"args", "exit"}
        /\ quiz = None
        /\ pc = "exit" => exit_code = Some(1)

\* C14 as amended: an argument list with no positional argument is an input
\* error (message, status 1, nothing loaded); further positional arguments are
\* ignored and the run goes on to load the file the first one names.
C14_AtLeastOneArgument ==
    /\ Len(args) < 2 =>
          /\ pc \in {"args", "exit"}
          /\ quiz = None
          /\ qi = 0
          /\ pc = "exit" =>
                /\ exit_code = Some(1)
                /\ out = <<"Error: Please input one parameter for json filename">>
    /\ (Len(args) >= 2 /\ pc # "args") =>
          /\ questions_file = Some(args[2])
          /\ out # <<"Error: Please input one parameter for json filename">>
          /\ pc = "exit" => file.status # "ok"

C14_Witness ==
    /\ Len(args) = 3
    /\ pc = "done"
    /\ results.correct = 1

\* C15: every Question of a constructed Quiz has a non-empty answers sequence
\* with exactly one Answer tagged correct, before and after both shuffles.
WellFormedAnswers(a) == a # <<>> /\ Cardinality(CorrectPositions(a)) = 1

C15_QuestionInvariant ==
    /\ quiz # None =>
          \A i \in 1..Len(Unwrap(quiz)) : WellFormedAnswers(Unwrap(quiz)[i].answers)
    /\ \A i \in 1..Len(questions) : WellFormedAnswers(questions[i].answers)
    /\ InQuestion => WellFormedAnswers(answers)

\* C16: a selection equal to the resolved index increments Results.correct alone
\* and prints "Correct!"; any other selection increments Results.incorrect alone
\* and prints the resolved index + 1, the 1-based place of the correct answer in
\* the order shown.
C16_ScoreStep ==
    (pc = "score" /\ pc' = "loop") =>
        LET u == Unwrap(user_index)
            c == Unwrap(correct_answer_index)
        IN IF u = c
           THEN /\ results' = [results EXCEPT !.correct = @ + 1]
                /\ out'[1] = "Correct!"
           ELSE /\ results' = [results EXCEPT !.incorrect = @ + 1]
                /\ out'[1] = "Incorrect! Correct answer was #" \o Str(c + 1)
                /\ c + 1 \in CorrectPositions(answers)
                /\ u + 1 \notin CorrectPositions(answers)

C16_ScoringRule == [][C16_ScoreStep]_vars

C16_Witness ==
    /\ pc = "loop"
    /\ results = [correct |-> 0, incorrect |-> 1]
    /\ out[1] = "Incorrect! Correct answer was #3"

\* C17: a rejected line prints "Invalid answer" exactly once, keeps the session
\* at the input request of the same question with the same answer order, and
\* leaves both Results counters as they were.
C17_RejectStep ==
    (pc = "input" /\ AcceptLine(user_answer', answers) = None) =>
        /\ pc' = "input"
        /\ Cardinality({i \in DOMAIN out' : out'[i] = "Invalid answer"}) = 1
        /\ out'[1] = "Answer: "
        /\ UNCHANGED <<results, qi, questions, answers, perm, correct_answer_index,
                       user_index>>

C17_AcceptStep ==
    (pc = "input" /\ AcceptLine(user_answer', answers) # None) =>
        /\ pc' = "score"
        /\ \A i \in DOMAIN out' : out'[i] # "Invalid answer"
        /\ UNCHANGED <<results, qi, answers>>

C17_RejectedInputNoEffect == [][C17_RejectStep /\ C17_AcceptStep]_vars

C17_Witness ==
    /\ pc = "input"
    /\ qi = 2
    /\ results = [correct |-> 1, incorrect |-> 0]
    /\ user_answer = <<"x", "\n">>
    /\ out = <<"Answer: ", "Invalid answer">>

\* C18: the loop takes the questions one at a time in the shuffled order, each
\* once; a question is taken only when all earlier ones are scored, and Done is
\* reached only with the sequence exhausted.
C18_Inv ==
    /\ (quiz # None /\ pc # "shuffle") =>
          /\ qperm \in Perms(Len(Unwrap(quiz)))
          /\ questions = Permute(Unwrap(quiz), qperm)
          /\ qi \in 0..Len(questions)
    /\ InQuestion =>
          /\ qi >= 1
          /\ answers = Permute(questions[qi].answers, perm)
          /\ results.correct + results.incorrect = qi - 1
    /\ pc = "done" =>
          /\ qi = Len(questions)
          /\ results.correct + results.incorrect = Len(questions)

C18_Step ==
    /\ qi' \in {qi, qi + 1}
    /\ qi' = qi + 1 <=> (pc = "loop" /\ pc' = "resolve")
    /\ (pc = "loop" /\ pc' = "resolve") =>
          results.correct + results.incorrect = qi
    /\ pc = "score" => pc' \in {"score", "loop"}
    /\ (quiz # None /\ pc # "shuffle") => questions' = questions

C18_SequentialProcessing == []C18_Inv /\ [][C18_Step]_vars

C18_Witness ==
    /\ pc = "done"
    /\ qi = 2
    /\ qperm = <<2, 1>>

RECURSIVE ExpectedDisplay(_, _, _)
\* the prompt block followed by the first n numbered entries
ExpectedDisplay(prompt, a, n) ==
    IF n = 0 THEN "---\n\n" \o prompt \o "\n\n"
    ELSE ExpectedDisplay(prompt, a, n - 1) \o Str(n) \o " - " \o a[n].text \o "\n\n"

\* C19: display_question prints the prompt once, then one entry per answer,
\* entry i numbered i with the text of answers[i] in the shuffled order, the
\* same sequence the resolver and the input check work on.
C19_PresentationContent ==
    pc = "resolve" =>
        /\ out = <<ExpectedDisplay(CurrentRecord.question, answers, Len(answers))>>
        /\ \A i \in 1..Len(answers) :
              as_str(answers[i]) = CurrentRecord.options[perm[i]]
        /\ (CurrentRecord.question = "q" /\ Len(answers) = 3
                /\ as_str(answers[1]) = "b" /\ as_str(answers[2]) = "a"
                /\ as_str(answers[3]) = "a")
              => out[1] = "---\n\nq\n\n1 - b\n\n2 - a\n\n3 - a\n\n"

C19_Witness ==
    /\ pc = "resolve"
    /\ perm = <<3, 1, 2>>
    /\ out = <<"---\n\nq\n\n1 - b\n\n2 - a\n\n3 - a\n\n">>

\* C20: get_file_name_from_args returns Ok with the element at index 1 when the
\* argument list has two or more elements, whatever follows it, and an error
\* exactly when the list has fewer than two.
C20_FileNameFromArgs ==
    pc # "args" =>
        IF Len(args) >= 2
        THEN /\ questions_file = Some(args[2])
             /\ out # <<"Error: Please input one parameter for json filename">>
        ELSE /\ questions_file = None
             /\ pc = "exit"
             /\ out = <<"Error: Please input one parameter for json filename">>

C20_Witness ==
    /\ pc = "load"
    /\ args = <<"script", "f.json", "extra">>
    /\ questions_file = Some("f.json")

====
